---- MODULE Spec2Model ----
(***************************************************************************)
(* Model of the inventory application of src/app.py: the persistence      *)
(* layer (one SQLite table `inventory`, lines 19-60) and the Streamlit    *)
(* script that drives it (lines 102-203).                                  *)
(*                                                                         *)
(* Spec    : the persistence API called directly, one call per step, and  *)
(*           the Excel import run by a single caller from start to end.   *)
(* SpecUI  : the script as Streamlit runs it: once, from the top, for     *)
(*           every interaction of each browser session. A run reads the   *)
(*           listing (line 103) and then executes the branch of the       *)
(*           pressed button and the import of the uploaded file; every    *)
(*           database call of a run is one atomic step (one connection,   *)
(*           one statement, one commit), and the runs of two sessions     *)
(*           interleave between those steps.                               *)
(*                                                                         *)
(* Names are text, quantities integers and prices numbers, as the         *)
(* callers of the repository pass them. Prices are modelled by small      *)
(* integers: the code only stores and returns them.                       *)
(***************************************************************************)
EXTENDS Integers, Sequences, FiniteSets, TLC

\* ------------------------------------------------------------------ bounds
MaxId == 2        \* AUTOINCREMENT ids handed out in a behaviour
MaxQty == 1       \* quantities range over -1..MaxQty and the two values around the default threshold
MaxRows == 2      \* data rows of an uploaded spreadsheet
MaxRuns == 3      \* button presses and file changes in a behaviour of SpecUI

\* ------------------------------------------------------- program constants
DefaultThreshold == 5

Names == {"A", "B"}
Prices == {0, 1}
Ids == 1..MaxId
Quantities == (-1..MaxQty) \cup {DefaultThreshold - 1, DefaultThreshold}
Thresholds == -2..(DefaultThreshold + 6)
Sessions == {1, 2}

VARIABLES
    table,        \* rows of table inventory: [id, name, quantity, price]
    seq,          \* sqlite_sequence.seq of inventory: the largest id ever assigned
    last,         \* the last persistence call of a direct caller and what it returned
    assigned,     \* history: every id a row ever had
    pc,           \* pc[s]: where session s's script run stands
    df,           \* df[s]: the listing session s read at line 103
    uploaded,     \* uploaded[s]: the file in session s's file_uploader
    row_i,        \* row_i[s]: data rows of the file already iterated
    added_count,  \* added_count[s]: line 194
    msg,          \* msg[s]: the messages of session s's current page
    runs          \* button presses and file changes so far

dbVars == <<table, seq, assigned>>
uiVars == <<pc, df, uploaded, row_i, added_count, msg, runs>>
vars == <<table, seq, last, assigned, pc, df, uploaded, row_i, added_count, msg, runs>>

\* ------------------------------------------------------------- SQL helpers
MaxOf(S) == CHOOSE m \in S : \A x \in S : x <= m

RowIds(tbl) == {r.id : r \in tbl}

\* The rowid an INTEGER PRIMARY KEY without AUTOINCREMENT would get.
NextRowidReuse(tbl, sq) == MaxOf(RowIds(tbl) \cup {0}) + 1

\* INTEGER PRIMARY KEY AUTOINCREMENT: one more than the largest id ever used.
NextRowid(tbl, sq) == MaxOf(RowIds(tbl) \cup {sq}) + 1

\* The declared constraint without UNIQUE.
NameTakenNoUnique(tbl, name) == FALSE

\* name TEXT UNIQUE: the insert violates the constraint.
NameTaken(tbl, name) == \E r \in tbl : r.name = name

\* INSERT OR REPLACE semantics: the colliding row is dropped and a new one written.
sql_insert_replace(tbl, sq, name, quantity, price) ==
    LET id == NextRowid(tbl, sq)
    IN  [table |-> {r \in tbl : r.name # name} \cup
                   {[id |-> id, name |-> name, quantity |-> quantity, price |-> price]},
         seq |-> id, ok |-> ~NameTaken(tbl, name)]

\* INSERT INTO inventory (name, quantity, price) VALUES (?, ?, ?); commit.
sql_insert(tbl, sq, name, quantity, price) ==
    IF NameTaken(tbl, name)
    THEN [table |-> tbl, seq |-> sq, ok |-> FALSE]
    ELSE LET id == NextRowid(tbl, sq)
         IN  [table |-> tbl \cup {[id |-> id, name |-> name,
                                   quantity |-> quantity, price |-> price]},
              seq |-> id, ok |-> TRUE]

\* An UPDATE that also rewrites the rows that do not match.
sql_update_all(tbl, item_id, quantity, price) ==
    {[r EXCEPT !.quantity = quantity, !.price = price] : r \in tbl}

\* UPDATE inventory SET quantity=?, price=? WHERE id=?
sql_update(tbl, item_id, quantity, price) ==
    {IF r.id = item_id THEN [r EXCEPT !.quantity = quantity, !.price = price] ELSE r
        : r \in tbl}

\* A DELETE whose WHERE clause compares with <=.
sql_delete_upto(tbl, item_id) == {r \in tbl : r.id > item_id}

\* DELETE FROM inventory WHERE id=?
sql_delete(tbl, item_id) == {r \in tbl : r.id # item_id}

\* The rows of a set in rowid order, as SELECT * returns them.
RECURSIVE ByRowid(_)
ByRowid(S) ==
    IF S = {} THEN <<>>
    ELSE LET r == CHOOSE x \in S : \A y \in S : x.id <= y.id
         IN  <<r>> \o ByRowid(S \ {r})

\* SELECT * FROM inventory
select_all(tbl) == ByRowid(tbl)

\* ------------------------------------------ f"{threshold}" and its SQL parse
Digit == <<"0", "1", "2", "3", "4", "5", "6", "7", "8", "9">>

RECURSIVE NatToStr(_)
NatToStr(n) ==
    IF n < 10 THEN <<Digit[n + 1]>> ELSE NatToStr(n \div 10) \o <<Digit[(n % 10) + 1]>>

\* Python's format of an int inside the f-string.
format_int(n) == IF n < 0 THEN <<"-">> \o NatToStr(-n) ELSE NatToStr(n)

DigitVal(c) == (CHOOSE i \in 1..10 : Digit[i] = c) - 1

RECURSIVE ParseNat(_)
ParseNat(s) ==
    IF Len(s) = 1 THEN DigitVal(s[1])
    ELSE 10 * ParseNat(SubSeq(s, 1, Len(s) - 1)) + DigitVal(s[Len(s)])

\* SQLite's value of the numeric literal, a leading minus being the unary operator.
sql_literal(s) == IF s[1] = "-" THEN 0 - ParseNat(Tail(s)) ELSE ParseNat(s)

\* A WHERE clause written with <=.
select_where_quantity_le(tbl, text) ==
    ByRowid({r \in tbl : r.quantity <= sql_literal(text)})

\* SELECT * FROM inventory WHERE quantity < <text>
select_where_quantity_lt(tbl, text) ==
    ByRowid({r \in tbl : r.quantity < sql_literal(text)})

\* ------------------------------------------------------ persistence queries
view_inventory == select_all(table)

get_low_stock_items(threshold) == select_where_quantity_lt(table, format_int(threshold))

get_low_stock_items_default == get_low_stock_items(DefaultThreshold)

\* -------------------------------------------------------- persistence calls
Ret(op, ret, n) == [op |-> op, ret |-> ret, n |-> n]

\* CREATE TABLE IF NOT EXISTS: the table exists, nothing is altered.
init_db ==
    /\ UNCHANGED dbVars
    /\ last' = Ret("init_db", "None", 0)

add_item(name, quantity, price) ==
    LET r == sql_insert(table, seq, name, quantity, price)
    IN  /\ table' = r.table
        /\ seq' = r.seq
        /\ assigned' = assigned \cup RowIds(r.table)
        /\ last' = Ret("add_item", IF r.ok THEN "True" ELSE "False", 0)

update_item(item_id, quantity, price) ==
    /\ table' = sql_update(table, item_id, quantity, price)
    /\ UNCHANGED <<seq, assigned>>
    /\ last' = Ret("update_item", "None", 0)

delete_item(item_id) ==
    /\ table' = sql_delete(table, item_id)
    /\ UNCHANGED <<seq, assigned>>
    /\ last' = Ret("delete_item", "None", 0)

\* ------------------------------------------------------------- bulk import
Num(v) == [num |-> TRUE, val |-> v]
Bad == [num |-> FALSE, val |-> 0]

AllCols == {"Name", "Quantity", "Price"}

\* Data rows: a cell of Quantity or Price is a number or text that is none.
Rows ==
    {[Name |-> n, Quantity |-> q, Price |-> Num(1)] : n \in Names, q \in {Num(-1), Num(1), Bad}}
    \cup {[Name |-> n, Quantity |-> Num(1), Price |-> Bad] : n \in Names}

RowSeqs == UNION {[1..k -> Rows] : k \in 0..MaxRows}

NoFile == [columns |-> {}, rows |-> <<>>, present |-> FALSE]

Files ==
    {[columns |-> AllCols, rows |-> rs, present |-> TRUE] : rs \in RowSeqs}
    \cup {[columns |-> AllCols \ {c}, rows |-> <<r>>, present |-> TRUE] :
            c \in AllCols, r \in {x \in Rows : x.Quantity = Num(1) /\ x.Price = Num(1)}}

\* all(col in excel_df.columns for col in ["Name", "Quantity", "Price"])
columns_ok(f) == AllCols \subseteq f.columns

\* int(row["Quantity"]) and float(row["Price"]) raise on this row.
conversion_fails(row) == ~row.Quantity.num \/ ~row.Price.num

\* for _, row in excel_df.iterrows(): add_item(...), until a conversion raises.
RECURSIVE import_rows(_, _, _, _)
import_rows(rows, tbl, sq, count) ==
    IF rows = <<>>
    THEN [table |-> tbl, seq |-> sq, added_count |-> count, error |-> FALSE]
    ELSE LET row == Head(rows)
         IN  IF conversion_fails(row)
             THEN [table |-> tbl, seq |-> sq, added_count |-> count, error |-> TRUE]
             ELSE LET r == sql_insert(tbl, sq, row.Name, row.Quantity.val, row.Price.val)
                  IN  import_rows(Tail(rows), r.table, r.seq,
                                  count + (IF r.ok THEN 1 ELSE 0))

\* The import of a file by a single caller, start to end.
import_excel(f) ==
    IF ~columns_ok(f)
    THEN /\ UNCHANGED dbVars
         /\ last' = Ret("import", "columns", 0)
    ELSE LET r == import_rows(f.rows, table, seq, 0)
         IN  /\ table' = r.table
             /\ seq' = r.seq
             /\ assigned' = assigned \cup RowIds(r.table)
             /\ last' = IF r.error THEN Ret("import", "error", 0)
                        ELSE Ret("import", "imported", r.added_count)

\* ---------------------------------------------------------------- Spec
NoSession == [s \in Sessions |-> 0]

\* init_db() has created the empty table (line 64) and each session shows the
\* page of the empty inventory, with no file uploaded.
Init ==
    /\ table = {}
    /\ seq = 0
    /\ assigned = {}
    /\ last = Ret("init_db", "None", 0)
    /\ pc = [s \in Sessions |-> "idle"]
    /\ df = [s \in Sessions |-> <<>>]
    /\ uploaded = [s \in Sessions |-> NoFile]
    /\ row_i = NoSession
    /\ added_count = NoSession
    /\ msg = [s \in Sessions |-> <<>>]
    /\ runs = 0

CallInitDb == init_db /\ UNCHANGED uiVars

CallAddItem ==
    \E name \in Names, quantity \in Quantities, price \in Prices :
        /\ add_item(name, quantity, price)
        /\ seq' <= MaxId
        /\ UNCHANGED uiVars

CallUpdateItem ==
    \E item_id \in Ids, quantity \in Quantities, price \in Prices :
        update_item(item_id, quantity, price) /\ UNCHANGED uiVars

CallDeleteItem ==
    \E item_id \in Ids : delete_item(item_id) /\ UNCHANGED uiVars

CallImport ==
    \E f \in Files :
        /\ import_excel(f)
        /\ seq' <= MaxId
        /\ UNCHANGED uiVars

Next ==
    \/ CallInitDb
    \/ CallAddItem
    \/ CallUpdateItem
    \/ CallDeleteItem
    \/ CallImport

Spec == Init /\ [][Next]_vars

\* ======================================================== claims under Spec

\* C1: in every reachable state no two rows of inventory have the same name.
C1_UniqueNames ==
    \A r1 \in table, r2 \in table : r1.name = r2.name => r1 = r2

\* C1 witness: a second insert of a name was attempted and the table holds two rows.
C1_Witness ==
    /\ last.op = "add_item" /\ last.ret = "False"
    /\ Cardinality(table) = 2

\* C2: add_item on a name that exists returns False and leaves the table as it
\* was; on a new name it returns True and the table gains exactly one row with
\* the given name, quantity and price.
C2_AddItemContract ==
    [][last'.op = "add_item" =>
       \A name \in Names, quantity \in Quantities, price \in Prices :
         add_item(name, quantity, price) =>
            IF \E r \in table : r.name = name
            THEN last'.ret = "False" /\ table' = table
            ELSE /\ last'.ret = "True"
                 /\ \E r \in table' :
                      /\ r \notin table
                      /\ table' = table \cup {r}
                      /\ r.name = name /\ r.quantity = quantity /\ r.price = price
                      /\ \A o \in table : o.id # r.id]_vars

\* C2 witness: an insert was refused while another row sits beside the one it collided with.
C2_Witness ==
    /\ last.op = "add_item" /\ last.ret = "False"
    /\ \E r1 \in table, r2 \in table : r1.quantity # r2.quantity /\ r1.price # r2.price

\* C3: the id of a newly inserted row differs from every id assigned before,
\* deleted rows included, and no row's id ever changes.
C3_IdsNeverReused ==
    [][/\ \A r \in table' : r.id \notin RowIds(table) => r.id \notin assigned
       /\ \A r \in table, n \in table' : r.name = n.name => r.id = n.id]_vars

\* C3 witness: an insert has just succeeded, and its row has a larger id than
\* a row that was deleted before.
C3_Witness ==
    /\ last.op = "add_item" /\ last.ret = "True"
    /\ \E i \in assigned : i \notin RowIds(table) /\ \E r \in table : r.id > i

\* C4: update_item sets quantity and price of the row with the id, keeps its id
\* and name and every other row; with no such row the table is unchanged.
C4_UpdateItemFrame ==
    [][last'.op = "update_item" =>
       \A item_id \in Ids, quantity \in Quantities, price \in Prices :
         update_item(item_id, quantity, price) =>
            /\ Cardinality(table') = Cardinality(table)
            /\ \A r \in table :
                 IF r.id = item_id
                 THEN [id |-> r.id, name |-> r.name,
                       quantity |-> quantity, price |-> price] \in table'
                 ELSE r \in table'
            /\ (item_id \notin RowIds(table) => table' = table)
            /\ last'.ret = "None"]_vars

\* C4 witness: an update ran on a table of two rows that differ in quantity and price.
C4_Witness ==
    /\ last.op = "update_item"
    /\ \E r1 \in table, r2 \in table : r1.quantity # r2.quantity /\ r1.price # r2.price

\* C5: delete_item removes the row with the id and no other; afterwards neither
\* listing returns it; with no such row the table is unchanged.
C5_DeleteItemExact ==
    [][last'.op = "delete_item" =>
       \A item_id \in Ids :
         delete_item(item_id) =>
            /\ table' = {r \in table : r.id # item_id}
            /\ \A i \in 1..Len(view_inventory') : view_inventory'[i].id # item_id
            /\ \A t \in Thresholds :
                 \A i \in 1..Len(get_low_stock_items(t)') :
                    get_low_stock_items(t)'[i].id # item_id
            /\ (item_id \notin RowIds(table) => table' = table)
            /\ last'.ret = "None"]_vars

\* C5 witness: a row was deleted and another row is still there.
C5_Witness ==
    /\ last.op = "delete_item"
    /\ table # {}
    /\ \E i \in assigned : i \notin RowIds(table) /\ \E r \in table : r.id > i

Below(t, r) == r.quantity < t

C8_FailedImportInsertsNothing ==
    [][last'.ret \in {"columns", "error"} =>
       \A f \in Files : import_excel(f) => table' = table]_vars

\* =================================================== the Streamlit script
\* st.number_input(min_value=0, step=1) and st.number_input(min_value=0.0):
\* what the widgets let a user enter.
UINames == Names \cup {""}
UIQuantities == 0..MaxQty
UIPrices == {p \in Prices : p >= 0}

\* The spreadsheets a session uploads: each name at most once and in order,
\* numeric prices, any Quantity cell; or a sheet that lacks a column.
NameOrder == <<"A", "B">>

UIFiles ==
    {f \in Files : \A i \in 1..Len(f.rows) :
        /\ i <= Len(NameOrder)
        /\ f.rows[i].Name = NameOrder[i]
        /\ f.rows[i].Price.num}

Msg(text, item, n) == [text |-> text, item |-> item, n |-> n]

Set(f, s, v) == [f EXCEPT ![s] = v]

df_names(d) == {d[i].name : i \in 1..Len(d)}

\* df[df["name"] == item][...].values[0]
df_row(d, item) == d[CHOOSE i \in 1..Len(d) : d[i].name = item /\ \A j \in 1..(i - 1) : d[j].name # item]

\* The stored quantity read again at the time of the write.
current_qty_fresh(s, item) ==
    IF \E r \in table : r.name = item
    THEN (CHOOSE r \in table : r.name = item).quantity
    ELSE df_row(df[s], item).quantity

\* line 147: current_qty, from the listing the run read at line 103.
current_qty(s, item) == df_row(df[s], item).quantity

\* line 190-201 up to the first row: the file check, with the page's messages m.
ImportEntry(s, f, m) ==
    /\ row_i' = Set(row_i, s, 0)
    /\ added_count' = Set(added_count, s, 0)
    /\ IF ~f.present
       THEN pc' = Set(pc, s, "idle") /\ msg' = Set(msg, s, m)
       ELSE IF ~columns_ok(f)
       THEN /\ pc' = Set(pc, s, "idle")
            /\ msg' = Set(msg, s, Append(m, Msg("Excel must have columns", "", 0)))
       ELSE IF f.rows = <<>>
       THEN /\ pc' = Set(pc, s, "idle")
            /\ msg' = Set(msg, s, Append(m, Msg("Imported", "", 0)))
       ELSE pc' = Set(pc, s, "import") /\ msg' = Set(msg, s, m)

\* line 148: number_input(value=current_qty, min_value=0) raises when the item
\* selected in the Update tab has a negative quantity; the run ends there.
UpdateTabRaises(s, d, m) ==
    /\ \E i \in 1..Len(d) : d[i].quantity < 0
    /\ pc' = Set(pc, s, "idle")
    /\ msg' = Set(msg, s, Append(m, Msg("StreamlitAPIException", "", 0)))
    /\ UNCHANGED <<row_i, added_count>>

\* lines 142-203 with no button of the Update and Delete tabs pressed.
RestOfScript(s, d, f, m) ==
    \/ UpdateTabRaises(s, d, m)
    \/ /\ d = <<>> \/ \E i \in 1..Len(d) : d[i].quantity >= 0
       /\ ImportEntry(s, f, m)

Shows(s, text, item, n) == \E i \in 1..Len(msg[s]) : msg[s][i] = Msg(text, item, n)

\* A run that raised at line 148 rendered nothing below it.
Raised(s) == Shows(s, "StreamlitAPIException", "", 0)

\* The buttons session s's page shows: Add Item always (line 132); Update Item,
\* Restock Item and Delete Item when the listing of the page was not empty and
\* the run got past line 148.
ShowsButton(s, click) ==
    \/ click = "add"
    \/ click \in {"update", "restock", "delete"} /\ df[s] # <<>> /\ ~Raised(s)

\* line 189: the file uploader is on the page.
ShowsUploader(s) == ~Raised(s)

\* Every rerun starts the script from the top: line 103 reads the listing.
Rerun(s) ==
    /\ pc[s] = "idle"
    /\ df' = Set(df, s, view_inventory)
    /\ UNCHANGED <<dbVars, last>>

\* The user presses a button the page shows.
ButtonRun(s) ==
    /\ Rerun(s)
    /\ runs < MaxRuns
    /\ runs' = runs + 1
    /\ \E click \in {"add", "update", "restock", "delete"} :
         /\ ShowsButton(s, click)
         /\ pc' = Set(pc, s, click)
    /\ msg' = Set(msg, s, <<>>)
    /\ UNCHANGED <<uploaded, row_i, added_count>>

\* The user puts a file into the uploader, replaces it or removes it.
UploadRun(s) ==
    /\ Rerun(s)
    /\ runs < MaxRuns
    /\ runs' = runs + 1
    /\ ShowsUploader(s)
    /\ \E f \in (UIFiles \cup {NoFile}) \ {uploaded[s]} :
         /\ uploaded' = Set(uploaded, s, f)
         /\ RestOfScript(s, view_inventory, f, <<>>)

\* A rerun by any other widget (search box, selection, dark mode toggle): no
\* button is pressed and the uploaded file stays.
WidgetRun(s) ==
    /\ Rerun(s)
    /\ UNCHANGED <<uploaded, runs>>
    /\ RestOfScript(s, view_inventory, uploaded[s], <<>>)

\* lines 132-139, then the rest of the script.
AddItemTab(s) ==
    /\ pc[s] = "add"
    /\ UNCHANGED <<df, uploaded, runs>>
    /\ \E name \in UINames, qty \in UIQuantities, price \in UIPrices :
         IF name # "" /\ qty >= 0 /\ price >= 0
         THEN /\ add_item(name, qty, price)
              /\ seq' <= MaxId
              /\ RestOfScript(s, df[s], uploaded[s],
                    <<Msg(IF last'.ret = "True" THEN "added" ELSE "already exists", name, 0)>>)
         ELSE /\ UNCHANGED <<dbVars, last>>
              /\ RestOfScript(s, df[s], uploaded[s],
                    <<Msg("Please fill all fields correctly.", "", 0)>>)

\* line 158 / 170: the tab shows no button, nothing is pressed.
NoItems(s) ==
    /\ df[s] = <<>>
    /\ UNCHANGED <<dbVars, last>>
    /\ ImportEntry(s, uploaded[s], <<Msg("No items", "", 0)>>)

\* lines 150-152.
UpdateItem(s, item, new_qty, new_price) ==
    /\ pc[s] = "update"
    /\ item \in df_names(df[s])
    /\ current_qty(s, item) >= 0
    /\ update_item(df_row(df[s], item).id, new_qty, new_price)
    /\ ImportEntry(s, uploaded[s], <<Msg("updated", item, 0)>>)
    /\ UNCHANGED <<df, uploaded, runs>>

\* lines 153-156.
RestockItem(s, item, restock_qty, new_price) ==
    /\ pc[s] = "restock"
    /\ item \in df_names(df[s])
    /\ current_qty(s, item) >= 0
    /\ update_item(df_row(df[s], item).id, current_qty(s, item) + restock_qty, new_price)
    /\ ImportEntry(s, uploaded[s], <<Msg("restocked", item, restock_qty)>>)
    /\ UNCHANGED <<df, uploaded, runs>>

\* lines 142-158 on a run whose trigger is a button of the Update tab.
UpdateItemTab(s) ==
    /\ pc[s] \in {"update", "restock"}
    /\ \/ NoItems(s) /\ UNCHANGED <<df, uploaded, runs>>
       \/ /\ UpdateTabRaises(s, df[s], <<>>)
          /\ UNCHANGED <<dbVars, last, df, uploaded, runs>>
       \/ \E item \in Names, new_qty \in UIQuantities, new_price \in UIPrices :
            UpdateItem(s, item, new_qty, new_price)
       \/ \E item \in Names, restock_qty \in UIQuantities, new_price \in UIPrices :
            /\ item \in df_names(df[s])
            /\ current_qty(s, item) + restock_qty <= MaxQty
            /\ RestockItem(s, item, restock_qty, new_price)

\* lines 166-168.
DeleteItem(s, item) ==
    /\ pc[s] = "delete"
    /\ item \in df_names(df[s])
    /\ delete_item(df_row(df[s], item).id)
    /\ ImportEntry(s, uploaded[s], <<Msg("deleted", item, 0)>>)
    /\ UNCHANGED <<df, uploaded, runs>>

\* lines 142-170 on a run whose trigger is the Delete button.
DeleteItemTab(s) ==
    /\ pc[s] = "delete"
    /\ \/ NoItems(s) /\ UNCHANGED <<df, uploaded, runs>>
       \/ /\ UpdateTabRaises(s, df[s], <<>>)
          /\ UNCHANGED <<dbVars, last, df, uploaded, runs>>
       \/ /\ \E i \in 1..Len(df[s]) : df[s][i].quantity >= 0
          /\ \E item \in Names : DeleteItem(s, item)

\* lines 195-203: one pass of the loop over the file's rows.
ImportRow(s) ==
    /\ pc[s] = "import"
    /\ UNCHANGED <<df, uploaded, runs>>
    /\ LET rows == uploaded[s].rows
           row == rows[row_i[s] + 1]
       IN  IF conversion_fails(row)
           THEN /\ UNCHANGED <<dbVars, last, row_i, added_count>>
                /\ pc' = Set(pc, s, "idle")
                /\ msg' = Set(msg, s, Append(msg[s], Msg("Error reading file", "", 0)))
           ELSE /\ add_item(row.Name, row.Quantity.val, row.Price.val)
                /\ seq' <= MaxId
                /\ row_i' = Set(row_i, s, row_i[s] + 1)
                /\ added_count' = Set(added_count, s,
                        added_count[s] + (IF last'.ret = "True" THEN 1 ELSE 0))
                /\ IF row_i[s] + 1 = Len(rows)
                   THEN /\ pc' = Set(pc, s, "idle")
                        /\ msg' = Set(msg, s,
                               Append(msg[s], Msg("Imported", "", added_count'[s])))
                   ELSE UNCHANGED <<pc, msg>>

NextUI ==
    \E s \in Sessions :
        \/ ButtonRun(s)
        \/ UploadRun(s)
        \/ WidgetRun(s)
        \/ AddItemTab(s)
        \/ UpdateItemTab(s)
        \/ DeleteItemTab(s)
        \/ ImportRow(s)

SpecUI == Init /\ [][NextUI]_vars

\* ====================================================== claims under SpecUI

\* C7 as claimed: every stored quantity is a non-negative integer in every state
\* the user actions reach.
C7_QuantitiesNonNegative ==
    \A r \in table : r.quantity >= 0

\* C9 as claimed, for a run whose listing is still current: Restock Item by
\* restock_qty adds restock_qty to the stored quantity of the selected row and
\* leaves its price, name and id, and every other row, as they were, whatever
\* the New Price input holds.
C9_RestockKeepsPrice ==
    [][\A s \in Sessions, item \in Names, restock_qty \in UIQuantities, new_price \in UIPrices :
         (df[s] = view_inventory /\ RestockItem(s, item, restock_qty, new_price)) =>
            \A r \in table :
               IF r.name = item
               THEN [r EXCEPT !.quantity = r.quantity + restock_qty] \in table'
               ELSE r \in table']_vars

\* C10: a restock writes the quantity of the run's own listing plus the delta,
\* whatever is stored by then; when the listing is current that is the stored
\* quantity plus the delta.
C10_RestockWritesSnapshotPlusDelta ==
    [][\A s \in Sessions, item \in Names, restock_qty \in UIQuantities, new_price \in UIPrices :
         RestockItem(s, item, restock_qty, new_price) =>
            LET shown == df_row(df[s], item)
            IN  /\ \A r \in table' : r.id = shown.id => r.quantity = shown.quantity + restock_qty
                /\ \A r \in table :
                     (r.id = shown.id /\ r.quantity = shown.quantity) =>
                        \E n \in table' : n.id = r.id /\ n.quantity = r.quantity + restock_qty]_vars

\* C10 witness: both sessions read quantity q for one item and restocked it by
\* d1 > 0 and d2 > 0; the stored quantity is q + d1 or q + d2, not q + d1 + d2.
C10_LostUpdate ==
    \E item \in Names, d1 \in UIQuantities, d2 \in UIQuantities :
        /\ d1 > 0 /\ d2 > 0
        /\ Shows(1, "restocked", item, d1)
        /\ Shows(2, "restocked", item, d2)
        /\ item \in df_names(df[1]) /\ item \in df_names(df[2])
        /\ df_row(df[1], item).id = df_row(df[2], item).id
        /\ df_row(df[1], item).quantity = df_row(df[2], item).quantity
        /\ \E r \in table :
             /\ r.id = df_row(df[1], item).id
             /\ r.quantity \in {df_row(df[1], item).quantity + d1,
                                df_row(df[1], item).quantity + d2}
             /\ r.quantity # df_row(df[1], item).quantity + d1 + d2

====
